---- MODULE Spec2Model ----
(***************************************************************************)
(* Client-side image compressor: the three React components of the         *)
(* repository (StandaloneCompressor, the Index page of src/pages/Index.tsx *)
(* and the Index page with the fallback tier and the WebP track).          *)
(*                                                                         *)
(* One step of the model is one browser task: a user event or the callback *)
(* of a host operation (image load, canvas.toBlob), together with every    *)
(* promise continuation (microtask) it triggers.  The host operations that *)
(* have been started and whose callback has not run yet are the elements   *)
(* of inflight; what a callback delivers (a blob or null, a load or an     *)
(* error) is chosen by the environment when the callback runs.             *)
(*                                                                         *)
(* Files reach handleFiles by the file input, which is disabled while      *)
(* isProcessing is true, and by the drop zone, which is not: Spec is the   *)
(* component with both, so calls of handleFiles can be pending side by     *)
(* side, with a free encoder.  SpecInput is Spec with the file input       *)
(* alone: each call starts after the one before it has ended.  SpecDrop is *)
(* Spec with PNG files dropped and one blob per type.  SpecFixed runs one  *)
(* file twice with an encoder that is a function of the request.           *)
(* SpecFilter applies the filter of handleFiles to files around the size   *)
(* limit.  SpecCanvas applies the load handlers' sizing of the canvas to   *)
(* image sizes.                                                            *)
(***************************************************************************)
EXTENDS Integers, Sequences, FiniteSets, TLC

\* ---------------------------------------------------------------- bounds
\* Largest FileList handed to handleFiles.
MaxFiles == 2

\* Files accepted by all the calls of handleFiles of one behaviour.
MaxTaken == 3

\* Byte lengths of the uploaded files.
FileSizes == {100}

\* Byte lengths a PNG (or JPEG) encode may return: a real gain (90), a gain
\* below the 5% threshold (96), larger than the source (104).
PngSizes == {90, 96, 104}

\* Byte lengths a WebP encode may return: a gain (90), exactly the size of
\* the source (100), larger than the source (104).
WebpSizes == {90, 100, 104}

\* ------------------------------------------------------- program constants
MinGainPercent == 5
SizeLimit == 50 * 1024 * 1024

Pages == {"StandaloneCompressor", "PagesIndex", "Index"}

\* (type, name) pairs of dropped files; the name is reduced to its extension.
FileKinds ==
  { [type |-> "image/png",  ext |-> ".png"],
    [type |-> "",           ext |-> ".PNG"],
    [type |-> "image/jpeg", ext |-> ".jpg"],
    [type |-> "text/plain", ext |-> ".txt"] }

\* String.prototype.toLowerCase on the extensions of FileKinds.
ToLowerCase(s) == IF s = ".PNG" THEN ".png" ELSE s

\* String.prototype.startsWith('image/') on the types of FileKinds.
StartsWithImage(t) == t \in {"image/png", "image/jpeg"}

\* ------------------------------------------------------------------ blobs
\* A Blob is its MIME type and its byte length; null is a record of the same
\* shape so that blobs and null compare.
Null == [type |-> "null", size |-> 0]
Blob(t, s) == [type |-> t, size |-> s]
SizesOf(t) == IF t = "image/webp" THEN WebpSizes ELSE PngSizes
Blobs(t) == { Blob(t, s) : s \in SizesOf(t) }

\* A promise of compressionPromises that has not been resolved (yet).
Unsettled == [type |-> "unsettled", size |-> 0]

\* ----------------------------------------------------------------- ratios
\* JavaScript numbers that are quotients are kept as exact fractions num/den
\* (den > 0); NoRatio stands for undefined.
Frac(n, d) == [num |-> n, den |-> d]
Zero == Frac(0, 1)
NoRatio == [num |-> 0, den |-> 0]
NoSize == -1

\* ((file.size - blob.size) / file.size) * 100
RatioOf(fileSize, blobSize) == Frac((fileSize - blobSize) * 100, fileSize)

\* r < n for a fraction r and an integer n
FracLess(r, n) == r.num < n * r.den

\* Math.max(0, r)
Max0(r) == IF r.num < 0 THEN Zero ELSE r

\* JavaScript truthiness of a number: 0 is falsy.
Truthy(r) == r # NoRatio /\ r.num # 0

\* ------------------------------------------------------------------ state
VARIABLES
  page,                \* the mounted component
  isProcessing,        \* useState: isProcessing
  progress,            \* useState: progress (a fraction, in percent)
  compressedImages,    \* useState: compressedImages / processedImages
  toasts,              \* toast(...), alert(...) and console.error(...) issued
  pc,                  \* the function the running handleFiles is suspended in
  files,               \* handleFiles: pngFiles / imageFiles
  i,                   \* handleFiles: loop index (1-based)
  results,             \* handleFiles: results
  inflight,            \* host operations started whose callback is due
  blobs,               \* the promises awaited by Promise.all
  compressedBlob,      \* compressPNG: compressedBlob
  finalCompressedBlob, \* compressPNG: finalCompressedBlob
  bestBlob,            \* compressPNGFallback: bestBlob
  currentIndex,        \* compressPNGFallback: currentIndex
  cands,               \* history: what the encoders returned for one file
  encoder,             \* the host's encoder, when it is a function of the request
  natural,             \* img.naturalWidth, img.naturalHeight of a decoded image
  canvas,              \* canvas.width, canvas.height set by a load handler
  dropped,             \* the FileList handed to handleFiles by SpecFilter
  others,              \* the handleFiles calls suspended besides the one above
  taken                \* history: the files handleFiles has accepted so far

jobVars == <<blobs, compressedBlob, finalCompressedBlob, bestBlob, currentIndex>>
batchVars == <<isProcessing, progress, compressedImages, toasts, files, i, results>>

\* What no step of handleFiles writes: the mounted component, the host's
\* encoder, the image and canvas sizes and the FileList looked at on their own.
hostVars == <<page, encoder, natural, canvas, dropped>>

\* What no callback of a compression writes: the above and the other
\* handleFiles calls.
envVars == <<hostVars, others, taken>>

vars == <<page, isProcessing, progress, compressedImages, toasts, pc, files, i,
          results, inflight, blobs, compressedBlob, finalCompressedBlob,
          bestBlob, currentIndex, cands, encoder, natural, canvas, dropped,
          others, taken>>

\* qualities of compressPNGFallback, in tenths
qualities == <<8, 7, 6>>

\* The history of one file: the byte lengths of the blobs the PNG encodes of
\* the primary tier and of the fallback tier returned; everything the WebP
\* encodes returned (blobs and null); whether the fallback tier was entered;
\* and, for createBlob, everything the
\* encodes of the one request that is issued more than once ('image/png' at
\* quality 0.9 on the same canvas) returned; and what the promise of
\* compressPNGFallback was settled with (a blob when resolved, Null when
\* rejected, Unsettled before).
NoCands(id) ==
  [id |-> id, primary |-> {}, fallback |-> {}, webp |-> {},
   ranFallback |-> FALSE, png90 |-> {}, fallbackBlob |-> Unsettled]

\* A File of the dropped FileList; id is its position in the list.
InputFiles ==
  { [type |-> k.type, ext |-> k.ext, size |-> s, decodable |-> d] :
      k \in FileKinds, s \in FileSizes, d \in BOOLEAN }
FileLists == UNION { [1..n -> InputFiles] : n \in 0..MaxFiles }

\* Array.from(files), each file with its position as its identity.
ArrayFrom(list) ==
  [k \in 1..Len(list) |->
     [id |-> k, type |-> list[k].type, ext |-> list[k].ext,
      size |-> list[k].size, decodable |-> list[k].decodable]]

\* Index.handleFiles: file.type === 'image/png' || name ends with '.png'
IsPngFile(f) == f.type = "image/png" \/ ToLowerCase(f.ext) = ".png"

\* A filter that refuses a file of exactly 50MB (a faulty variant).
IsImageFileBelowLimit(f) == StartsWithImage(f.type) /\ f.size < SizeLimit

\* StandaloneCompressor.handleFiles: an image of at most 50MB
IsImageFile(f) == StartsWithImage(f.type) /\ f.size <= SizeLimit

\* What the compression reads of a File.
FileOf(f) == [id |-> f.id, size |-> f.size, decodable |-> f.decodable]

\* Array.prototype.filter of handleFiles.
Accepted(list) ==
  LET kept == IF page = "StandaloneCompressor"
                THEN SelectSeq(ArrayFrom(list), IsImageFile)
                ELSE SelectSeq(ArrayFrom(list), IsPngFile)
  IN [k \in 1..Len(kept) |-> FileOf(kept[k])]

Toast(kind, id) == [kind |-> kind, file |-> id]

\* The function a file's compression starts in.
FirstPc ==
  CASE page = "StandaloneCompressor" -> "compressImage"
    [] page = "PagesIndex" -> "compressPNG"
    [] OTHER -> "compressPNGAdvanced"

ResetJob ==
  /\ blobs' = <<>>
  /\ compressedBlob' = Null
  /\ finalCompressedBlob' = Null
  /\ bestBlob' = Null
  /\ currentIndex' = 0

\* compressPNG(file) / compressImage(file) up to img.src = ...: the load of
\* the file is started.
StartCompress ==
  /\ pc' = FirstPc
  /\ inflight' = {"img"}
  /\ ResetJob

\* encoder, natural and canvas when a behaviour leaves the encoder free and
\* does not look at sizes in pixels.
AnyEncoder == <<>>
NoDims == [width |-> 0, height |-> 0]
NoCanvas == [by |-> "none", width |-> 0, height |-> 0]

\* The component after its first render, nothing dropped yet.
Mounted ==
  /\ isProcessing = FALSE
  /\ progress = Zero
  /\ compressedImages = <<>>
  /\ toasts = {}
  /\ pc = "idle"
  /\ files = <<>>
  /\ i = 0
  /\ results = <<>>
  /\ inflight = {}
  /\ blobs = <<>>
  /\ compressedBlob = Null
  /\ finalCompressedBlob = Null
  /\ bestBlob = Null
  /\ currentIndex = 0
  /\ cands = NoCands(0)
  /\ others = <<>>
  /\ taken = 0

Init ==
  /\ page \in Pages
  /\ encoder = AnyEncoder
  /\ natural = NoDims
  /\ canvas = NoCanvas
  /\ dropped = <<>>
  /\ Mounted

\* The File objects of a FileList are new objects: the files of one drop are
\* told apart from those of every earlier drop.
NewFiles(accepted) ==
  [k \in 1..Len(accepted) |->
     [accepted[k] EXCEPT !.id = @ + MaxFiles * taken]]

\* handleFiles(files) up to its first await, as a new call with its own
\* pngFiles, results and i.
StartBatch(list) ==
  LET accepted == NewFiles(Accepted(list)) IN
  IF Len(accepted) = 0
  THEN /\ toasts' = toasts \cup {Toast("noFiles", 0)}
       /\ UNCHANGED <<hostVars, isProcessing, progress, compressedImages, pc,
                      files, i, results, inflight, jobVars, cands, taken>>
  ELSE /\ taken + Len(accepted) <= MaxTaken
       /\ taken' = taken + Len(accepted)
       /\ isProcessing' = TRUE
       /\ progress' = Zero
       /\ compressedImages' =
            (IF page = "StandaloneCompressor" THEN <<>> ELSE compressedImages)
       /\ files' = accepted
       /\ i' = 1
       /\ results' = <<>>
       /\ StartCompress
       /\ UNCHANGED <<hostVars, toasts, cands>>

\* ------------------------------------------- calls pending side by side
\* The drop zone calls handleFiles whatever isProcessing is (onDrop =
\* {handleDrop}; only the file input and its button are disabled while
\* processing), so several calls of handleFiles can be pending at once.
\* Each has its own pngFiles, i and results and its own pending compression;
\* isProcessing, progress, compressedImages and the toasts are the
\* component's.  The variables pc ... cands hold one pending call, others
\* holds the rest.
MaxSuspended == 1

\* The pending call held in pc ... cands, as a record.
Suspended ==
  [pc |-> pc, files |-> files, i |-> i, results |-> results,
   inflight |-> inflight, blobs |-> blobs, compressedBlob |-> compressedBlob,
   finalCompressedBlob |-> finalCompressedBlob, bestBlob |-> bestBlob,
   currentIndex |-> currentIndex, cands |-> cands]

Resume(o) ==
  /\ pc' = o.pc
  /\ files' = o.files
  /\ i' = o.i
  /\ results' = o.results
  /\ inflight' = o.inflight
  /\ blobs' = o.blobs
  /\ compressedBlob' = o.compressedBlob
  /\ finalCompressedBlob' = o.finalCompressedBlob
  /\ bestBlob' = o.bestBlob
  /\ currentIndex' = o.currentIndex
  /\ cands' = o.cands

\* The event loop's next callback belongs to the pending call others[k]:
\* that call is taken up, the one held so far is set aside.  No variable of
\* the program changes.
TakeUp(k) ==
  /\ k \in 1..Len(others)
  /\ others[k].inflight # {}
  /\ others' = [others EXCEPT ![k] = Suspended]
  /\ Resume(others[k])
  /\ UNCHANGED <<hostVars, taken, isProcessing, progress, compressedImages,
                 toasts>>

\* handleFiles(files), as handleDrop calls it whatever isProcessing is.  The
\* new call is held in pc ... cands: it takes the place of a call that has
\* ended, and a call that is still pending is set aside in others.
HandleFiles(list) ==
  /\ StartBatch(list)
  /\ IF pc \in {"idle", "done"} \/ Len(Accepted(list)) = 0
     THEN UNCHANGED others
     ELSE /\ Len(others) < MaxSuspended
          /\ others' = Append(others, Suspended)

\* handleFileInput: the file input is disabled while isProcessing is true.
HandleFileInput(list) ==
  /\ ~isProcessing
  /\ HandleFiles(list)

\* The rest of one iteration of handleFiles' loop after the try/catch around
\* the compression: setProgress, i++, the next iteration or the loop's exit
\* with setCompressedImages, the completion toast and the finally block.
LoopTail(res, tst, published) ==
  IF i < Len(files)
  THEN /\ i' = i + 1
       /\ progress' = Frac(i * 100, Len(files))
       /\ results' = res
       /\ toasts' = tst
       /\ compressedImages' = published
       /\ StartCompress
       /\ UNCHANGED <<envVars, isProcessing, files>>
  ELSE /\ i' = i + 1
       /\ results' = res
       /\ compressedImages' =
            (IF page = "StandaloneCompressor" THEN published ELSE res)
       /\ toasts' =
            (IF page # "StandaloneCompressor" /\ Len(res) > 0
               THEN tst \cup {Toast("completed", 0)} ELSE tst)
       /\ isProcessing' = FALSE
       /\ progress' = Zero
       /\ pc' = "done"
       /\ inflight' = {}
       /\ ResetJob
       /\ UNCHANGED <<envVars, files>>

\* handleFiles without the try/catch inside the loop: a rejection leaves the
\* loop for the outer catch and the finally block (a faulty variant).
CatchErrorAborts ==
  /\ toasts' = toasts \cup {Toast("error", files[i].id)} \cup
                 (IF page = "StandaloneCompressor" THEN {}
                  ELSE {Toast("failed", 0)})
  /\ isProcessing' = FALSE
  /\ progress' = Zero
  /\ pc' = "done"
  /\ inflight' = {}
  /\ ResetJob
  /\ UNCHANGED <<envVars, compressedImages, files, i, results>>

\* handleFiles with an empty catch block: the rejected file leaves no trace
\* (a faulty variant).
CatchErrorSilent ==
  LoopTail(results, toasts, compressedImages)

\* handleFiles: the awaited compression rejected; the catch block reports the
\* file and the loop goes on.
CatchError ==
  LoopTail(results, toasts \cup {Toast("error", files[i].id)}, compressedImages)

\* handleFiles with results.unshift(compressed) for results.push(compressed):
\* the newest outcome comes first (a faulty variant).
PushResultFirst(o) ==
  LET res == <<o>> \o results IN
  LoopTail(res, toasts,
           IF page = "StandaloneCompressor" THEN res ELSE compressedImages)

\* handleFiles: the awaited compression resolved with outcome o.
PushResult(o) ==
  LET res == Append(results, o) IN
  LoopTail(res, toasts,
           IF page = "StandaloneCompressor" THEN res ELSE compressedImages)

\* --------------------------------------------------------------- outcomes
\* What canvas.toBlob(callback, type, quality) may hand to its callback.
EncoderResults(type) == Blobs(type) \cup {Null}

\* Index.tsx, compressPNG: the CompressedImage it resolves with (no WebP).
OutcomePagesIndex(f, smallestBlob) ==
  [ originalFile |-> f.id,
    compressedBlob |-> smallestBlob,
    webpBlob |-> Null,
    originalSize |-> f.size,
    compressedSize |-> smallestBlob.size,
    webpSize |-> NoSize,
    compressionRatio |-> Max0(RatioOf(f.size, smallestBlob.size)),
    webpCompressionRatio |-> NoRatio ]

\* compressPNG: webpCompressionRatio ? Math.max(0, webpCompressionRatio) : undefined
WebpRatioField(webpCompressionRatio) ==
  IF Truthy(webpCompressionRatio) THEN Max0(webpCompressionRatio) ELSE NoRatio

\* compressPNG: the CompressedImage it returns; webpBlob is Null when
\* convertToWebP rejected.
OutcomeIndex(f, finalBlob, webpBlob) ==
  LET webpCompressionRatio ==
        IF webpBlob = Null THEN NoRatio ELSE RatioOf(f.size, webpBlob.size)
  IN
  [ originalFile |-> f.id,
    compressedBlob |-> finalBlob,
    webpBlob |-> webpBlob,
    originalSize |-> f.size,
    compressedSize |-> finalBlob.size,
    webpSize |-> (IF webpBlob = Null THEN NoSize ELSE webpBlob.size),
    compressionRatio |-> Max0(RatioOf(f.size, finalBlob.size)),
    webpCompressionRatio |-> WebpRatioField(webpCompressionRatio) ]

\* compressImage: the ProcessedImage it resolves with (webpRatio is kept in
\* the field webpCompressionRatio).
OutcomeStandalone(f, pngBlob, webpBlob) ==
  [ originalFile |-> f.id,
    compressedBlob |-> pngBlob,
    webpBlob |-> webpBlob,
    originalSize |-> f.size,
    compressedSize |-> pngBlob.size,
    webpSize |-> webpBlob.size,
    compressionRatio |-> Max0(RatioOf(f.size, pngBlob.size)),
    webpCompressionRatio |-> Max0(RatioOf(f.size, webpBlob.size)) ]

\* ----------------------------------------------------------- primary tier
\* Promise.race in the place of Promise.all (a faulty variant).
SomeSettled(bl) == \E k \in 1..Len(bl) : bl[k] # Unsettled

\* Promise.all(promises) is resolved once every promise of the array is.
AllSettled(bl) == \A k \in 1..Len(bl) : bl[k] # Unsettled

IsSettled(b) == b # Unsettled

\* A reduce that keeps the larger blob (a faulty variant).
RECURSIVE ReduceLargest(_, _, _)
ReduceLargest(valid, k, smallest) ==
  IF k > Len(valid) THEN smallest
  ELSE ReduceLargest(valid, k + 1,
              IF valid[k].size > smallest.size THEN valid[k] ELSE smallest)

\* A reduce that lets the later of two blobs of one size win (a faulty variant).
RECURSIVE ReduceLastWins(_, _, _)
ReduceLastWins(valid, k, smallest) ==
  IF k > Len(valid) THEN smallest
  ELSE ReduceLastWins(valid, k + 1,
              IF valid[k].size <= smallest.size THEN valid[k] ELSE smallest)

\* validBlobs.reduce((smallest, current) =>
\*   current.size < smallest.size ? current : smallest)
RECURSIVE Reduce(_, _, _)
Reduce(valid, k, smallest) ==
  IF k > Len(valid) THEN smallest
  ELSE Reduce(valid, k + 1,
              IF valid[k].size < smallest.size THEN valid[k] ELSE smallest)

\* The blob Promise.all(...).then picks: the filter of the settled blobs and
\* the reduce without an initial value.
SmallestBlob(bl) ==
  LET validBlobs == SelectSeq(bl, IsSettled) IN
  Reduce(validBlobs, 2, validBlobs[1])

\* compressPNG: advancedRatio < 5
NeedsFallback(fileSize, blob) ==
  FracLess(RatioOf(fileSize, blob.size), MinGainPercent)

\* compressPNG from "Generate WebP version" to the await of convertToWebP.
StartWebP(advanced, final) ==
  /\ pc' = "convertToWebP"
  /\ inflight' = {"img"}
  /\ blobs' = <<>>
  /\ compressedBlob' = advanced
  /\ finalCompressedBlob' = final
  /\ bestBlob' = Null
  /\ currentIndex' = 0
  /\ UNCHANGED <<envVars, batchVars>>

\* compressPNG after the await of compressPNGAdvanced: the fallback tier is
\* entered when the gain is below the threshold, the WebP track otherwise.
AfterAdvanced(blob) ==
  IF NeedsFallback(files[i].size, blob)
  THEN /\ pc' = "compressPNGFallback"
       /\ inflight' = {"img"}
       /\ blobs' = <<>>
       /\ compressedBlob' = blob
       /\ finalCompressedBlob' = blob
       /\ bestBlob' = Null
       /\ currentIndex' = 0
       /\ UNCHANGED <<envVars, batchVars>>
  ELSE StartWebP(blob, blob)

\* Promise.all(compressionPromises).then(...): runs once every promise has
\* been resolved.  No promise is ever rejected and validBlobs is never empty
\* here, so the .catch branch (toBlob at quality 0.8) cannot run.
PromiseAllThen(bl) ==
  LET smallestBlob == SmallestBlob(bl) IN
  IF page = "PagesIndex"
  THEN PushResult(OutcomePagesIndex(files[i], smallestBlob))
  ELSE AfterAdvanced(smallestBlob)

\* resolve(blob) with the selection made over the blobs at hand as soon as one
\* promise is resolved (a faulty variant).
ResolvePromiseRace(k, b, rest) ==
  PromiseAllThen([blobs EXCEPT ![k] = b])

\* resolve(blob) of compressionPromises[k]; rest is what stays in flight.
ResolvePromise(k, b, rest) ==
  LET nb == [blobs EXCEPT ![k] = b] IN
  IF AllSettled(nb)
  THEN PromiseAllThen(nb)
  ELSE /\ blobs' = nb
       /\ inflight' = rest
       /\ UNCHANGED <<envVars, batchVars, pc, compressedBlob, finalCompressedBlob,
                      bestBlob, currentIndex>>

InPrimary == pc \in {"compressPNG", "compressPNGAdvanced"}

\* The load handlers with onerror treated like onload (a faulty variant).
ImgLoadIgnoresError(ctx) ==
  /\ InPrimary
  /\ "img" \in inflight
  /\ cands' = NoCands(files[i].id)
  /\ IF ~ctx
     THEN CatchError
     ELSE /\ blobs' = <<Unsettled, Unsettled, Unsettled>>
          /\ inflight' = {"png95", "png90", "jpeg85"}
          /\ UNCHANGED <<envVars, batchVars, pc, compressedBlob,
                         finalCompressedBlob, bestBlob, currentIndex>>

\* img.onload / img.onerror of compressPNGAdvanced (and of Index.tsx's
\* compressPNG); ctx tells whether canvas.getContext('2d') gave a context.
ImgLoad(ctx) ==
  /\ InPrimary
  /\ "img" \in inflight
  /\ cands' = NoCands(files[i].id)
  /\ IF ~files[i].decodable \/ ~ctx
     THEN CatchError
     ELSE /\ blobs' = <<Unsettled, Unsettled, Unsettled>>
          /\ inflight' = {"png95", "png90", "jpeg85"}
          /\ UNCHANGED <<envVars, batchVars, pc, compressedBlob,
                         finalCompressedBlob, bestBlob, currentIndex>>

\* The toBlob callback of a PNG encode of the primary tier:
\* (blob) => { if (blob) resolve(blob); }
PngCallback(call, k, b) ==
  /\ InPrimary
  /\ call \in inflight
  /\ IF b = Null
     THEN /\ inflight' = inflight \ {call}
          /\ UNCHANGED <<envVars, batchVars, pc, jobVars>>
     ELSE ResolvePromise(k, b, inflight \ {call})
  /\ cands' = [cands EXCEPT
                 !.primary = IF b = Null THEN @ ELSE @ \cup {b.size},
                 !.ranFallback = (pc' = "compressPNGFallback")]

Strategy1Callback(b) == PngCallback("png95", 1, b)

Strategy2Callback(b) == PngCallback("png90", 2, b)

\* Strategy 3, the toBlob callback of the JPEG encode: a JPEG blob starts the
\* load of tempImg, null ends the strategy without settling its promise.
JpegCallback(b) ==
  /\ InPrimary
  /\ "jpeg85" \in inflight
  /\ inflight' = (inflight \ {"jpeg85"}) \cup
                   (IF b = Null THEN {} ELSE {"tempImg"})
  /\ UNCHANGED <<envVars, batchVars, pc, jobVars, cands>>

\* Strategy 3, tempImg.onload: the PNG encode of the temporary canvas starts
\* if it has a context.  tempImg has no onerror handler.
TempImgLoad(loaded, tempCtx) ==
  /\ InPrimary
  /\ "tempImg" \in inflight
  /\ inflight' = (inflight \ {"tempImg"}) \cup
                   (IF loaded /\ tempCtx THEN {"png90b"} ELSE {})
  /\ UNCHANGED <<envVars, batchVars, pc, jobVars, cands>>

Strategy3Callback(b) == PngCallback("png90b", 3, b)

\* ---------------------------------------------------------- fallback tier
\* A choice that always takes the fallback tier's blob (a faulty variant).
FinalBlobFallbackOnly(advanced, fallbackBlob) == fallbackBlob

\* compressPNG: if (fallbackBlob.size < compressedBlob.size)
\*                finalCompressedBlob = fallbackBlob
FinalBlob(advanced, fallbackBlob) ==
  IF fallbackBlob.size < advanced.size THEN fallbackBlob ELSE advanced

\* A callback that keeps the latest blob without comparing lengths (a faulty
\* variant).
BestOfLatest(best, blob) ==
  IF blob # Null THEN blob ELSE best

\* tryNextQuality's callback: if (blob && (!bestBlob || blob.size < bestBlob.size))
BestOf(best, blob) ==
  IF blob # Null /\ (best = Null \/ blob.size < best.size) THEN blob ELSE best

\* img.onload / img.onerror of compressPNGFallback.  A rejection is caught by
\* compressPNG, which keeps the primary tier's blob.
FallbackImgLoad(ctx) ==
  /\ pc = "compressPNGFallback"
  /\ "img" \in inflight
  /\ IF ~files[i].decodable \/ ~ctx
     THEN StartWebP(compressedBlob, finalCompressedBlob)
     ELSE /\ inflight' = {"fb"}
          /\ bestBlob' = Null
          /\ currentIndex' = 0
          /\ UNCHANGED <<envVars, batchVars, pc, blobs, compressedBlob,
                         finalCompressedBlob>>
  /\ cands' = [cands EXCEPT
                 !.fallbackBlob = IF ~files[i].decodable \/ ~ctx
                                  THEN Null ELSE @]

\* compressPNG without the try/catch around the await of compressPNGFallback:
\* the rejection after three encodes without a blob rejects the file (a
\* faulty variant).
FallbackCallbackRejects(b) ==
  /\ pc = "compressPNGFallback"
  /\ "fb" \in inflight
  /\ LET best == BestOf(bestBlob, b)
         next == currentIndex + 1
     IN
     IF next >= Len(qualities)
     THEN IF best # Null
          THEN StartWebP(compressedBlob, FinalBlob(compressedBlob, best))
          ELSE CatchError
     ELSE /\ bestBlob' = best
          /\ currentIndex' = next
          /\ inflight' = {"fb"}
          /\ UNCHANGED <<envVars, batchVars, pc, blobs, compressedBlob,
                         finalCompressedBlob>>
  /\ cands' = [cands EXCEPT
                 !.fallback = IF b = Null THEN @ ELSE @ \cup {b.size},
                 !.fallbackBlob = IF currentIndex + 1 >= Len(qualities)
                                  THEN BestOf(bestBlob, b) ELSE @]

\* The toBlob callback of tryNextQuality followed by the next call of
\* tryNextQuality: the next encode, or resolve(bestBlob) / reject(...) after
\* the last quality, and then compressPNG up to the await of convertToWebP.
FallbackCallback(b) ==
  /\ pc = "compressPNGFallback"
  /\ "fb" \in inflight
  /\ LET best == BestOf(bestBlob, b)
         next == currentIndex + 1
     IN
     IF next >= Len(qualities)
     THEN IF best # Null
          THEN StartWebP(compressedBlob, FinalBlob(compressedBlob, best))
          ELSE StartWebP(compressedBlob, finalCompressedBlob)
     ELSE /\ bestBlob' = best
          /\ currentIndex' = next
          /\ inflight' = {"fb"}
          /\ UNCHANGED <<envVars, batchVars, pc, blobs, compressedBlob,
                         finalCompressedBlob>>
  /\ cands' = [cands EXCEPT
                 !.fallback = IF b = Null THEN @ ELSE @ \cup {b.size},
                 !.fallbackBlob = IF currentIndex + 1 >= Len(qualities)
                                  THEN BestOf(bestBlob, b) ELSE @]

\* ------------------------------------------------------------- WebP track
\* img.onload / img.onerror of convertToWebP.  A rejection is caught by
\* compressPNG, which returns the outcome without the WebP blob.
WebPImgLoad(ctx) ==
  /\ pc = "convertToWebP"
  /\ "img" \in inflight
  /\ IF ~files[i].decodable \/ ~ctx
     THEN PushResult(OutcomeIndex(files[i], finalCompressedBlob, Null))
     ELSE /\ inflight' = {"webp"}
          /\ UNCHANGED <<envVars, batchVars, pc, jobVars>>
  /\ UNCHANGED cands

\* convertToWebP without the try/catch of compressPNG around it: a WebP
\* encode without a blob rejects the file (a faulty variant).
WebPCallbackRejects(b) ==
  /\ pc = "convertToWebP"
  /\ "webp" \in inflight
  /\ IF b = Null
     THEN CatchError
     ELSE PushResult(OutcomeIndex(files[i], finalCompressedBlob, b))
  /\ cands' = [cands EXCEPT !.webp = @ \cup {b}]

\* The toBlob callback of convertToWebP, then compressPNG to its return and
\* handleFiles to its next await.
WebPCallback(b) ==
  /\ pc = "convertToWebP"
  /\ "webp" \in inflight
  /\ PushResult(OutcomeIndex(files[i], finalCompressedBlob, b))
  /\ cands' = [cands EXCEPT !.webp = @ \cup {b}]

\* --------------------------------------------------- StandaloneCompressor
\* compressImage after Promise.all([createBlob(png), createBlob(webp)]):
\* reading .size of a null blob throws, the catch block rejects.
BlobsReady(bl) ==
  IF bl[1] = Null \/ bl[2] = Null
  THEN CatchError
  ELSE PushResult(OutcomeStandalone(files[i], bl[1], bl[2]))

\* resolve(...) of the promise of createBlob number k (1 PNG, 2 WebP).
ResolveCreateBlob(k, b, rest) ==
  LET nb == [blobs EXCEPT ![k] = b] IN
  IF AllSettled(nb)
  THEN BlobsReady(nb)
  ELSE /\ blobs' = nb
       /\ inflight' = rest
       /\ UNCHANGED <<envVars, batchVars, pc, compressedBlob, finalCompressedBlob,
                      bestBlob, currentIndex>>

\* img.onload / img.onerror of compressImage.
CompressImageLoad(ctx) ==
  /\ pc = "compressImage"
  /\ "img" \in inflight
  /\ cands' = NoCands(files[i].id)
  /\ IF ~files[i].decodable \/ ~ctx
     THEN CatchError
     ELSE /\ blobs' = <<Unsettled, Unsettled>>
          /\ inflight' = {"png", "webp"}
          /\ UNCHANGED <<envVars, batchVars, pc, compressedBlob,
                         finalCompressedBlob, bestBlob, currentIndex>>

\* createBlob: the callback of canvas.toBlob(..., format, quality); without a
\* blob the PNG encode at quality 0.9 is started instead.
CreateBlobCallback(call, k, retry, b) ==
  /\ pc = "compressImage"
  /\ call \in inflight
  /\ IF b # Null
     THEN ResolveCreateBlob(k, b, inflight \ {call})
     ELSE /\ inflight' = (inflight \ {call}) \cup {retry}
          /\ UNCHANGED <<envVars, batchVars, pc, jobVars>>
  /\ cands' = [cands EXCEPT
                 !.primary = IF k = 1 /\ b # Null THEN @ \cup {b.size} ELSE @,
                 !.webp = IF k = 2 THEN @ \cup {b} ELSE @,
                 !.png90 = IF k = 1 THEN @ \cup {b} ELSE @]

\* createBlob: the callback of the second toBlob: resolve(fallbackBlob!)
CreateBlobRetryCallback(retry, k, b) ==
  /\ pc = "compressImage"
  /\ retry \in inflight
  /\ ResolveCreateBlob(k, b, inflight \ {retry})
  /\ cands' = [cands EXCEPT
                 !.primary = IF k = 1 /\ b # Null THEN @ \cup {b.size} ELSE @,
                 !.png90 = @ \cup {b}]

PngBlobCallback(b) == CreateBlobCallback("png", 1, "pngRetry", b)

WebpBlobCallback(b) == CreateBlobCallback("webp", 2, "webpRetry", b)

PngBlobRetryCallback(b) == CreateBlobRetryCallback("pngRetry", 1, b)

WebpBlobRetryCallback(b) == CreateBlobRetryCallback("webpRetry", 2, b)

\* ---------------------------------------------------------- specification
Next ==
  \/ \E list \in FileLists : HandleFiles(list)
  \/ \E k \in 1..MaxSuspended : TakeUp(k)
  \/ \E ctx \in BOOLEAN : ImgLoad(ctx)
  \/ \E b \in EncoderResults("image/png") : Strategy1Callback(b)
  \/ \E b \in EncoderResults("image/png") : Strategy2Callback(b)
  \/ \E b \in EncoderResults("image/jpeg") : JpegCallback(b)
  \/ \E loaded \in BOOLEAN, tempCtx \in BOOLEAN : TempImgLoad(loaded, tempCtx)
  \/ \E b \in EncoderResults("image/png") : Strategy3Callback(b)
  \/ \E ctx \in BOOLEAN : FallbackImgLoad(ctx)
  \/ \E b \in EncoderResults("image/png") : FallbackCallback(b)
  \/ \E ctx \in BOOLEAN : WebPImgLoad(ctx)
  \/ \E b \in EncoderResults("image/webp") : WebPCallback(b)
  \/ \E ctx \in BOOLEAN : CompressImageLoad(ctx)
  \/ \E b \in EncoderResults("image/png") : PngBlobCallback(b)
  \/ \E b \in EncoderResults("image/webp") : WebpBlobCallback(b)
  \/ \E b \in EncoderResults("image/png") : PngBlobRetryCallback(b)
  \/ \E b \in EncoderResults("image/png") : WebpBlobRetryCallback(b)

Spec == Init /\ [][Next]_vars

\* ------------------------------------------------ files by the file input
\* The component when every FileList comes through the file input and none
\* is dropped: the input is disabled while isProcessing is true, so a call of
\* handleFiles starts only when no other call is pending.
NextInput ==
  \/ \E list \in FileLists : HandleFileInput(list)
  \/ \E ctx \in BOOLEAN : ImgLoad(ctx)
  \/ \E b \in EncoderResults("image/png") : Strategy1Callback(b)
  \/ \E b \in EncoderResults("image/png") : Strategy2Callback(b)
  \/ \E b \in EncoderResults("image/jpeg") : JpegCallback(b)
  \/ \E loaded \in BOOLEAN, tempCtx \in BOOLEAN : TempImgLoad(loaded, tempCtx)
  \/ \E b \in EncoderResults("image/png") : Strategy3Callback(b)
  \/ \E ctx \in BOOLEAN : FallbackImgLoad(ctx)
  \/ \E b \in EncoderResults("image/png") : FallbackCallback(b)
  \/ \E ctx \in BOOLEAN : WebPImgLoad(ctx)
  \/ \E b \in EncoderResults("image/webp") : WebPCallback(b)
  \/ \E ctx \in BOOLEAN : CompressImageLoad(ctx)
  \/ \E b \in EncoderResults("image/png") : PngBlobCallback(b)
  \/ \E b \in EncoderResults("image/webp") : WebpBlobCallback(b)
  \/ \E b \in EncoderResults("image/png") : PngBlobRetryCallback(b)
  \/ \E b \in EncoderResults("image/png") : WebpBlobRetryCallback(b)

SpecInput == Init /\ [][NextInput]_vars

\* ------------------------------------------ a deterministic host encoder
\* The toBlob requests of compressPNG for one file, each named as in inflight
\* (the three requests of tryNextQuality by their quality, in tenths).
PngRequests == {"png95", "png90", "png90b", "q8", "q7", "q6"}
EncodeRequests == PngRequests \cup {"jpeg85", "webp"}

\* qualities[currentIndex] as a request
QualityRequest == <<"q8", "q7", "q6">>

\* Byte lengths the deterministic encoder answers with: a gain (90) and a gain
\* below the threshold (96); the length of Null stands for "no blob".
FixedSizes == {90, 96}

\* An encoder that answers a request with the same blob every time.
Encoders ==
  { p @@ j @@ w :
      p \in [PngRequests -> FixedSizes \cup {Null.size}],
      j \in [{"jpeg85"} -> {90, Null.size}],
      w \in [{"webp"} -> {90}] }

TypeOfRequest(c) ==
  CASE c = "jpeg85" -> "image/jpeg"
    [] c = "webp" -> "image/webp"
    [] OTHER -> "image/png"

\* The blob handed to the callback of request c: a Blob is an object, so the
\* blobs of two requests differ even when their lengths agree (field by).
Encode(c) ==
  IF encoder[c] = Null.size THEN Null
  ELSE [type |-> TypeOfRequest(c), size |-> encoder[c], by |-> c]

\* One PNG file dropped twice in one FileList.
SameFileTwice ==
  { <<f, f>> : f \in { g \in InputFiles : g.type = "image/png" /\ g.decodable } }

InitFixed ==
  /\ page \in {"PagesIndex", "Index"}
  /\ encoder \in Encoders
  /\ natural = NoDims
  /\ canvas = NoCanvas
  /\ dropped = <<>>
  /\ Mounted

\* tryNextQuality's callback with the encoder's answer to
\* toBlob(..., 'image/png', qualities[currentIndex]).
QualityCallback == FallbackCallback(Encode(QualityRequest[currentIndex + 1]))

\* The callbacks of compressPNG with the encoder's answers, every image load
\* succeeding and every canvas having a context.
NextFixed ==
  \/ \E list \in SameFileTwice : HandleFileInput(list)
  \/ ImgLoad(TRUE)
  \/ Strategy1Callback(Encode("png95"))
  \/ Strategy2Callback(Encode("png90"))
  \/ JpegCallback(Encode("jpeg85"))
  \/ TempImgLoad(TRUE, TRUE)
  \/ Strategy3Callback(Encode("png90b"))
  \/ FallbackImgLoad(TRUE)
  \/ QualityCallback
  \/ WebPImgLoad(TRUE)
  \/ WebPCallback(Encode("webp"))

SpecFixed == InitFixed /\ [][NextFixed]_vars

\* ------------------------------------------------ the filter of handleFiles
\* File sizes around the limit of StandaloneCompressor.
LimitSizes == {SizeLimit - 1, SizeLimit, SizeLimit + 1}

LimitFiles ==
  { [type |-> k.type, ext |-> k.ext, size |-> s, decodable |-> TRUE] :
      k \in FileKinds, s \in LimitSizes }
LimitFileLists == UNION { [1..n -> LimitFiles] : n \in 0..MaxFiles }

InitFilter ==
  /\ page \in Pages
  /\ encoder = AnyEncoder
  /\ natural = NoDims
  /\ canvas = NoCanvas
  /\ dropped \in LimitFileLists
  /\ Mounted

\* The FileList is chosen in the file input: handleFiles(e.target.files), up
\* to handleFiles' first await.
NextFilter == HandleFileInput(dropped)

SpecFilter == InitFilter /\ [][NextFilter]_vars

\* ------------------------------------------------- drops during a batch
\* Spec with a bounded environment: the calls of handleFiles, the taking up
\* of a pending call and the callbacks are those of Next.
\* The FileLists dropped: PNG files of one size, decodable or not.
DroppedFiles ==
  { f \in InputFiles : f.type = "image/png" }
DroppedFileLists == UNION { [1..n -> DroppedFiles] : n \in 1..MaxFiles }

\* What toBlob hands over: one blob per type (a PNG blob with a gain under
\* the threshold, so that every tier runs) or null.
DropResults(type) ==
  {Null, Blob(type, IF type = "image/webp" THEN 90 ELSE 96)}

InitDrop == Init

NextDrop ==
  \/ \E list \in DroppedFileLists : HandleFiles(list)
  \/ \E k \in 1..MaxSuspended : TakeUp(k)
  \/ ImgLoad(TRUE)
  \/ \E b \in DropResults("image/png") : Strategy1Callback(b)
  \/ \E b \in DropResults("image/png") : Strategy2Callback(b)
  \/ \E b \in DropResults("image/jpeg") : JpegCallback(b)
  \/ TempImgLoad(TRUE, TRUE)
  \/ \E b \in DropResults("image/png") : Strategy3Callback(b)
  \/ FallbackImgLoad(TRUE)
  \/ \E b \in DropResults("image/png") : FallbackCallback(b)
  \/ WebPImgLoad(TRUE)
  \/ \E b \in DropResults("image/webp") : WebPCallback(b)
  \/ CompressImageLoad(TRUE)
  \/ \E b \in DropResults("image/png") : PngBlobCallback(b)
  \/ \E b \in DropResults("image/webp") : WebpBlobCallback(b)
  \/ \E b \in DropResults("image/png") : PngBlobRetryCallback(b)
  \/ \E b \in DropResults("image/png") : WebpBlobRetryCallback(b)

SpecDrop == InitDrop /\ [][NextDrop]_vars

\* ------------------------------------------------------- the canvas sizes
\* Widths and heights of decoded images, in pixels: within every limit, at
\* and just above each limit, and far above.
Dims == {1, 3, 11, 375, 1024, 1025, 1920, 1921, 2048, 2049, 2244, 2304, 2816, 5000}

\* const maxDimension of the load handler of each function that scales its
\* canvas (compressPNGFallback writes 1024 in place); convertToWebP has none.
MaxDimension(by) ==
  CASE by = "compressImage" -> 1920
    [] by = "compressPNGFallback" -> 1024
    [] by \in {"compressPNG", "compressPNGAdvanced"} -> 2048

\* A scale taken from the shorter side (a faulty variant).
ShorterSide(width, height) == IF width < height THEN width ELSE height

\* scale = Math.min(maxDimension / width, maxDimension / height) is the
\* quotient of maxDimension by the longer side.
LongerSide(width, height) == IF width > height THEN width ELSE height

RECURSIVE Gcd(_, _)
Gcd(a, b) == IF b = 0 THEN a ELSE Gcd(b, a % b)

RECURSIVE IsPowerOfTwo(_)
IsPowerOfTwo(n) == n = 1 \/ (n % 2 = 0 /\ IsPowerOfTwo(n \div 2))

\* The double maxDimension / longer is the exact quotient when the quotient
\* is a binary fraction; otherwise it is the quotient rounded to 53 bits, a
\* little below or a little above it.
ExactScale(maxDimension, longer) ==
  IsPowerOfTwo(longer \div Gcd(maxDimension, longer))

\* Math.floor(side * scale).  The product of the doubles differs from the
\* exact side * maxDimension / longer by far less than 1 / longer, so the
\* floor is that of the exact value unless the exact value is an integer q
\* and the scale is a rounded quotient: then the product is q or a little
\* below or above it, and the floor is q - 1 or q.
FloorScaled(side, maxDimension, longer) ==
  LET q == (side * maxDimension) \div longer
      whole == (side * maxDimension) % longer = 0
  IN IF whole /\ ~ExactScale(maxDimension, longer) THEN {q - 1, q} ELSE {q}

\* Math.round(side * scale), which rounds halves up: as FloorScaled, with
\* the two outcomes when the exact value is an integer and a half.
RoundScaled(side, maxDimension, longer) ==
  LET q == (2 * side * maxDimension + longer) \div (2 * longer)
      half == (2 * side * maxDimension + longer) % (2 * longer) = 0
  IN IF half /\ ~ExactScale(maxDimension, longer) THEN {q - 1, q} ELSE {q}

\* The widths (heights) a load handler may give its canvas for an image of
\* natural size n: if (width > maxDimension || height > maxDimension) {...}
TargetSides(by, side, n) ==
  LET maxDimension == MaxDimension(by)
      longer == LongerSide(n.width, n.height)
  IN IF n.width > maxDimension \/ n.height > maxDimension
     THEN IF by = "compressImage"
          THEN RoundScaled(side, maxDimension, longer)
          ELSE FloorScaled(side, maxDimension, longer)
     ELSE {side}

\* img.onload of function by, from reading the image's size to canvas.width
\* = ...; canvas.height = ...
SizeCanvas(by) ==
  /\ canvas = NoCanvas
  /\ \E w \in TargetSides(by, natural.width, natural),
        h \in TargetSides(by, natural.height, natural) :
       canvas' = [by |-> by, width |-> w, height |-> h]
  /\ UNCHANGED <<page, encoder, natural, dropped, others, taken, batchVars,
                 pc, inflight, jobVars, cands>>

CompressImageSize == page = "StandaloneCompressor" /\ SizeCanvas("compressImage")

CompressPNGSize == page = "PagesIndex" /\ SizeCanvas("compressPNG")

AdvancedSize == page = "Index" /\ SizeCanvas("compressPNGAdvanced")

FallbackSize == page = "Index" /\ SizeCanvas("compressPNGFallback")

\* img.onload of convertToWebP: canvas.width = originalWidth; canvas.height =
\* originalHeight, whatever the size.
WebPSize ==
  /\ page = "Index"
  /\ canvas = NoCanvas
  /\ canvas' = [by |-> "convertToWebP", width |-> natural.width,
                height |-> natural.height]
  /\ UNCHANGED <<page, encoder, natural, dropped, others, taken, batchVars,
                 pc, inflight, jobVars, cands>>

InitCanvas ==
  /\ page \in Pages
  /\ encoder = AnyEncoder
  /\ natural \in [width : Dims, height : Dims]
  /\ canvas = NoCanvas
  /\ dropped = <<>>
  /\ Mounted

NextCanvas ==
  \/ CompressImageSize
  \/ CompressPNGSize
  \/ AdvancedSize
  \/ FallbackSize
  \/ WebPSize

SpecCanvas == InitCanvas /\ [][NextCanvas]_vars

\* ------------------------------------------------------------------ types
BlobOrNull == {Null} \cup Blobs("image/png") \cup Blobs("image/webp")

TypeOK ==
  /\ page \in Pages
  /\ isProcessing \in BOOLEAN
  /\ pc \in {"idle", "compressImage", "compressPNG", "compressPNGAdvanced",
             "compressPNGFallback", "convertToWebP", "done"}
  /\ i \in 0..(MaxFiles + 1)
  /\ Len(files) <= MaxFiles
  /\ Len(results) <= Len(files)
  /\ inflight \subseteq {"img", "png95", "png90", "jpeg85", "tempImg", "png90b",
                         "fb", "webp", "png", "pngRetry", "webpRetry"}
  /\ \A k \in 1..Len(blobs) : blobs[k] \in BlobOrNull \cup {Unsettled}
  /\ compressedBlob \in BlobOrNull
  /\ finalCompressedBlob \in BlobOrNull
  /\ bestBlob \in BlobOrNull
  /\ currentIndex \in 0..Len(qualities)
  /\ taken \in 0..MaxTaken

\* ----------------------------------------------------------------- claims
SetMin(S) == CHOOSE x \in S : \A y \in S : x <= y

\* The outcomes in results of the file whose encoder history cands holds.
Emitted == { results[k] : k \in 1..Len(results) }
EmittedForCands == { o \in Emitted : o.originalFile = cands.id }

PngCandidates == cands.primary \cup cands.fallback

\* Every host call of the primary tier has returned and Promise.all has not
\* been resolved: the file is still in the primary tier with nothing due.
PrimaryReturned == InPrimary /\ Len(blobs) = 3 /\ inflight = {}

LowGain(fileSize, size) == FracLess(RatioOf(fileSize, size), MinGainPercent)

\* C1: the PNG blob of an emitted outcome is no larger than any blob a PNG
\* encode of the primary tier or of the fallback tier returned for that file.
C1_ChosenNotLargerThanCandidates ==
  \A o \in EmittedForCands : \A c \in PngCandidates : o.compressedSize <= c

C1_Witness ==
  /\ page = "Index"
  /\ EmittedForCands # {}
  /\ cands.ranFallback
  /\ cands.fallback # {}
  /\ Cardinality(cands.primary) >= 2
  /\ \E o \in EmittedForCands : \E c \in PngCandidates : o.compressedSize < c

\* C2: every ratio of every track present in an emitted outcome lies in
\* [0, 100] and is exactly 0 when the track's blob is at least as large as
\* the original file.
RatioInRange(r, size, orig) ==
  /\ r # NoRatio
  /\ 0 <= r.num
  /\ r.num <= 100 * r.den
  /\ (size >= orig => r.num = 0)

C2_RatiosInRange ==
  \A o \in Emitted :
    /\ RatioInRange(o.compressionRatio, o.compressedSize, o.originalSize)
    /\ o.webpBlob # Null =>
         RatioInRange(o.webpCompressionRatio, o.webpBlob.size, o.originalSize)

\* C3: when the primary encodes have all returned, one of them without a
\* blob and another with one, the file has left the primary tier with a
\* choice among the blobs returned (it is not left waiting).
C3_FailedStrategyExcluded ==
  ~(PrimaryReturned /\ cands.primary # {} /\ \E k \in 1..3 : blobs[k] = Unsettled)

\* C4: compressPNG enters the fallback tier when the primary tier has
\* returned without any blob, and when its smallest blob gains less than 5%.
C4_FallbackRuns ==
  page = "Index" =>
    /\ ~(PrimaryReturned /\ cands.primary = {})
    /\ (pc \in {"compressPNGFallback", "convertToWebP"}
          /\ LowGain(files[i].size, compressedBlob.size)) => cands.ranFallback

\* C5 as stated: with every primary blob below 5% gain and a blob from the
\* fallback tier, the chosen PNG size is the fallback tier's minimum.
AllPrimaryLowGain(o) ==
  /\ page = "Index"
  /\ cands.primary # {}
  /\ \A c \in cands.primary : LowGain(o.originalSize, c)
  /\ cands.fallback # {}

C5_FallbackMinimumChosen ==
  \A o \in EmittedForCands :
    AllPrimaryLowGain(o) => o.compressedSize = SetMin(cands.fallback)

\* C5 as amended: in that case the chosen PNG size is the fallback tier's
\* minimum when it is smaller than the primary tier's minimum, and the
\* primary tier's minimum otherwise.
C5_SmallerTierMinimumChosen ==
  \A o \in EmittedForCands :
    AllPrimaryLowGain(o) =>
      o.compressedSize =
        (IF SetMin(cands.fallback) < SetMin(cands.primary)
           THEN SetMin(cands.fallback) ELSE SetMin(cands.primary))

C5_Witness ==
  \E o \in EmittedForCands :
    /\ AllPrimaryLowGain(o)
    /\ SetMin(cands.fallback) < SetMin(cands.primary)
    /\ o.compressedSize = SetMin(cands.fallback)

\* C6: when every encode compressPNG started for a file has returned
\* without a blob, the file is reported as failed to handleFiles and has no
\* outcome.
C6_TotalFailureSignalled ==
  (page = "Index" /\ pc \in {"compressPNGAdvanced", "compressPNGFallback"}
     /\ cands.id = files[i].id /\ inflight = {} /\ PngCandidates = {})
    => /\ Toast("error", cands.id) \in toasts
       /\ EmittedForCands = {}

\* C7: a step in which a file's compression is rejected goes on with the next
\* accepted file, or ends the batch when it was the last one; a finished
\* batch has published the outcome of every file that was not rejected.
Rejects(id) == Toast("error", id) \in toasts
RejectionStep ==
  \E k \in 1..Len(files) :
    ~Rejects(files[k].id) /\ Toast("error", files[k].id) \in toasts'

C7_RejectionDoesNotAbort ==
  /\ [][RejectionStep =>
          /\ i' = i + 1
          /\ results' = results
          /\ IF i < Len(files)
             THEN pc' = FirstPc /\ inflight' = {"img"} /\ isProcessing'
             ELSE pc' = "done" /\ compressedImages' = results]_vars
  /\ [](pc = "done" =>
          /\ compressedImages = results
          /\ \A k \in 1..Len(files) :
               Rejects(files[k].id) # (\E o \in Emitted : o.originalFile = files[k].id))

C7_Witness ==
  /\ pc = "done"
  /\ Len(files) = 2
  /\ Rejects(files[1].id)
  /\ Len(compressedImages) = 1
  /\ compressedImages[1].originalFile = files[2].id

\* C8: a file that cannot be decoded gets no outcome, and once handleFiles
\* has gone past it, it has been reported as failed.
C8_DecodeFailureFailsFile ==
  \A k \in 1..Len(files) :
    ~files[k].decodable =>
      /\ \A o \in Emitted : o.originalFile # files[k].id
      /\ k < i => Rejects(files[k].id)

C8_Witness ==
  \E k \in 1..Len(files) :
    /\ ~files[k].decodable
    /\ k < i
    /\ Rejects(files[k].id)
    /\ cands.id # files[k].id

\* C9: with a PNG encoder that answers the same request in the same way,
\* what the PNG track yields is decided by the PNG encodes alone, whatever the
\* WebP encodes return: an emitted outcome carries the smallest blob the PNG
\* track's encodes returned, with its size and ratio, and the file is rejected
\* only if they returned none.
SamePngResults == Cardinality(cands.png90) <= 1

C9_TrackIndependence ==
  SamePngResults =>
    /\ \A o \in EmittedForCands :
         /\ o.compressedBlob = Blob("image/png", SetMin(PngCandidates))
         /\ o.compressedSize = SetMin(PngCandidates)
         /\ o.compressionRatio = Max0(RatioOf(o.originalSize, SetMin(PngCandidates)))
    /\ Rejects(cands.id) => PngCandidates = {}

\* The WebP encode of a file returned no blob, and the file's outcome is
\* there with the smallest blob of the PNG track.
C9_Witness ==
  /\ page = "Index"
  /\ cands.webp = {Null}
  /\ cands.ranFallback
  /\ \E o \in EmittedForCands :
       /\ o.compressedSize = SetMin(PngCandidates)
       /\ o.webpBlob = Null

\* C10: an outcome of a file none of whose WebP encodes returned a blob has
\* no WebP fields, a WebP blob in an outcome is a blob a WebP encode
\* returned, and a file whose PNG track yielded a blob while no WebP encode
\* did is not rejected.
WebpSucceeded == cands.webp \ {Null}

C10_WebpAbsentWhenFailed ==
  /\ \A o \in EmittedForCands :
       /\ o.webpBlob # Null => o.webpBlob \in WebpSucceeded
       /\ WebpSucceeded = {} =>
            /\ o.webpBlob = Null
            /\ o.webpSize = NoSize
            /\ o.webpCompressionRatio = NoRatio
  /\ (WebpSucceeded = {} /\ PngCandidates # {}) => ~Rejects(cands.id)

\* The configured order of the PNG strategies: the primary tier's three, then
\* the fallback tier's qualities.
ConfiguredOrder == <<"png95", "png90", "png90b", "q8", "q7", "q6">>
Position(c) == CHOOSE k \in 1..Len(ConfiguredOrder) : ConfiguredOrder[k] = c

\* Under the deterministic encoder: the blobs the PNG strategies that ran for
\* the file of cands produced, once the file has an outcome.
Produced ==
  { Encode(c) : c \in {"png95", "png90", "png90b"} } \cup
  (IF cands.ranFallback
     THEN { Encode(c) : c \in {"q8", "q7", "q6"} } \ {Null} ELSE {})

SmallestProduced == { b \in Produced : \A c \in Produced : b.size <= c.size }

\* C11: the PNG blob of an outcome is, among the blobs of minimum length the
\* file's PNG strategies produced, the one of the strategy that comes first in
\* the configured order.
C11_FirstInOrderWinsTies ==
  \A o \in EmittedForCands :
    /\ o.compressedBlob \in SmallestProduced
    /\ \A b \in SmallestProduced :
         Position(o.compressedBlob.by) <= Position(b.by)

\* Strategies 1, 2 and 3 and the first quality of the fallback tier all gave
\* the minimum length, and strategy 1's blob is in the outcome.
C11_Witness ==
  \E o \in EmittedForCands :
    /\ cands.ranFallback
    /\ { b.by : b \in SmallestProduced } = {"png95", "png90", "png90b", "q8"}
    /\ o.compressedBlob.by = "png95"

\* C12: with the deterministic encoder, two runs of one file yield the same
\* PNG blob (the same strategy's) and the same WebP blob, whatever the order
\* of the callbacks was in each run.
C12_SameChoiceInBothRuns ==
  Len(results) = 2 =>
    /\ results[1].compressedBlob = results[2].compressedBlob
    /\ results[1].webpBlob = results[2].webpBlob

\* Both runs ended with the blob of strategy 3, which is never the first to
\* be resolved alone: its two encodes and the load between them interleave
\* with the callbacks of strategies 1 and 2.
C12_Witness ==
  /\ Len(results) = 2
  /\ results[1].originalFile # results[2].originalFile
  /\ results[2].compressedBlob.by = "png90b"

\* C13: the step in which the promises awaited by Promise.all are left behind
\* (the selection over a file's blobs is made) starts in a state where one
\* promise alone is unresolved and one host call alone is due: the step is
\* the callback of the last strategy to complete.
UnsettledCount == Cardinality({ k \in 1..Len(blobs) : blobs[k] = Unsettled })

C13_JoinAllBarrier ==
  [][(Len(blobs) > 0 /\ Len(blobs') = 0) =>
       (UnsettledCount = 1 /\ Cardinality(inflight) = 1)]_vars

\* The three primary strategies returned blobs of three lengths and the
\* smallest went on to the WebP track.
C13_Witness ==
  /\ page = "Index"
  /\ pc = "convertToWebP"
  /\ cands.id = files[i].id
  /\ Cardinality(cands.primary) = 3
  /\ compressedBlob.size = SetMin(cands.primary)

\* C14: in a batch, whatever is in flight belongs to the file at the loop
\* index; every file before it has its outcome or its failure, no file
\* after it has been touched, and the index moves by one, in the step that
\* gives the file at the index its outcome or its failure.
Finalized(id) == Rejects(id) \/ \E o \in Emitted : o.originalFile = id
FinalizedNext(id) ==
  \/ Toast("error", id) \in toasts'
  \/ \E k \in 1..Len(results') : results'[k].originalFile = id

C14_StrictlySequential ==
  /\ [](/\ inflight # {} => i \in 1..Len(files)
        /\ \A k \in 1..Len(files) :
             /\ k < i => Finalized(files[k].id)
             /\ k > i => (~Finalized(files[k].id) /\ cands.id # files[k].id))
  /\ [][(pc \notin {"idle", "done"} /\ i' # i) =>
          (i' = i + 1 /\ ~Finalized(files[i].id) /\ FinalizedNext(files[i].id))]_vars

\* The second file of a batch is in its primary tier, one encode returned
\* and others due; the first file has its outcome.
C14_Witness ==
  /\ Len(files) = 2
  /\ i = 2
  /\ \E o \in Emitted : o.originalFile = files[1].id
  /\ cands.id = files[2].id
  /\ cands.primary # {}
  /\ Cardinality(inflight) >= 2

\* C15: when strategies 1 and 2 have returned their blobs and the roundtrip
\* strategy has ended without one (no JPEG blob, or tempImg not loaded, or no
\* context for its canvas), the file is not left in the primary tier with
\* nothing due: the selection is made over the blobs of strategies 1 and 2.
RoundtripFailed ==
  /\ InPrimary
  /\ Len(blobs) = 3
  /\ blobs[1] # Unsettled
  /\ blobs[2] # Unsettled
  /\ blobs[3] = Unsettled
  /\ inflight = {}

C15_RoundtripFailureTolerated == ~RoundtripFailed

\* C16: a file's image is not loaded again once an encode of the file has
\* returned; a file the loop has gone past has its failure or exactly one
\* outcome, never both; a file the loop has not gone past has neither.
DecodedAgain ==
  /\ i \in 1..Len(files)
  /\ cands.id = files[i].id
  /\ pc \in {"compressPNGFallback", "convertToWebP"}
  /\ "img" \in inflight

OutcomesOf(id) == { k \in 1..Len(results) : results[k].originalFile = id }

ExactlyOneResult ==
  \A k \in 1..Len(files) :
    IF k < i
    THEN Cardinality(OutcomesOf(files[k].id)) + (IF Rejects(files[k].id) THEN 1 ELSE 0) = 1
    ELSE OutcomesOf(files[k].id) = {} /\ ~Rejects(files[k].id)

C16_StagesInOrderOneResult == ~DecodedAgain /\ ExactlyOneResult

\* C17: while an encode of a file is due in a pending call of handleFiles,
\* the component is in the processing state and the file has neither outcome
\* nor failure; and the loop index of the call and the processing state
\* change only in a step that starts with a single host call of it due, the
\* step being that call's callback.  So a callback that never comes leaves
\* the file, the files after it and isProcessing as they are: nothing else
\* moves them.
EncodeCalls ==
  {"png95", "png90", "jpeg85", "png90b", "fb", "webp", "png", "pngRetry", "webpRetry"}

\* The calls of handleFiles with their own files, index and results: the one
\* held in pc ... cands and those set aside.
HandleFilesCalls == {Suspended} \cup { others[k] : k \in 1..Len(others) }

FinalizedIn(c, id) ==
  Rejects(id) \/ \E k \in 1..Len(c.results) : c.results[k].originalFile = id

FileUnfinished(c) ==
  /\ c.i \in 1..Len(c.files)
  /\ ~FinalizedIn(c, c.files[c.i].id)

C17_NoTimeout ==
  /\ [](\A c \in HandleFilesCalls :
          (c.inflight \cap EncodeCalls # {}) =>
            (isProcessing /\ FileUnfinished(c)))
  /\ [][(others' = others /\ pc \notin {"idle", "done"}
           /\ (i' # i \/ isProcessing' # isProcessing)) =>
          Cardinality(inflight) = 1]_vars

\* The parts of C17 that a second call of handleFiles leaves standing: the
\* file with an encode due has neither outcome nor failure, and the index and
\* the processing state move only in a callback.
C17_FileStalls ==
  /\ [](\A c \in HandleFilesCalls :
          (c.inflight \cap EncodeCalls # {}) => FileUnfinished(c))
  /\ [][(others' = others /\ pc \notin {"idle", "done"}
           /\ (i' # i \/ isProcessing' # isProcessing)) =>
          Cardinality(inflight) = 1]_vars

\* C18: of the files dropped on StandaloneCompressor, handleFiles takes for
\* compression those and only those whose type starts with image/ and whose
\* size is at most 50 * 1024 * 1024 = 52428800 bytes.
TakenForCompression(k) ==
  pc # "idle" /\ \E j \in 1..Len(files) : files[j].id = k

WithinStandaloneLimits(f) ==
  f.type \in {"image/png", "image/jpeg"} /\ f.size <= 52428800

C18_StandaloneFilter ==
  page = "StandaloneCompressor" =>
    \A k \in 1..Len(dropped) :
      /\ TakenForCompression(k) => WithinStandaloneLimits(dropped[k])
      /\ (WithinStandaloneLimits(dropped[k]) /\ (pc # "idle" \/ toasts # {}))
           => TakenForCompression(k)

\* An image of 50MB + 1 byte and an image of exactly 50MB were dropped: the
\* compression of the second one, alone, has started.
C18_Witness ==
  /\ page = "StandaloneCompressor"
  /\ Len(dropped) = 2
  /\ dropped[1].type = "image/png"
  /\ dropped[1].size = 52428801
  /\ dropped[2].type = "image/jpeg"
  /\ dropped[2].size = 52428800
  /\ pc = "compressImage"
  /\ inflight = {"img"}
  /\ Len(files) = 1
  /\ files[1].id = 2

\* C19: the width and the height a load handler gives its canvas are at most
\* the handler's limit (1920 in compressImage, 1024 in compressPNGFallback,
\* 2048 in compressPNGAdvanced and in compressPNG), and they are the image's
\* own width and height when both are within the limit.  The canvas of
\* convertToWebP belongs to none of these tiers and has no limit.
TierHandlers ==
  {"compressImage", "compressPNG", "compressPNGAdvanced", "compressPNGFallback"}

LimitOf(by) ==
  IF by = "compressImage" THEN 1920
  ELSE IF by = "compressPNGFallback" THEN 1024 ELSE 2048

C19_CanvasWithinMaxDimension ==
  canvas.by \in TierHandlers =>
    /\ canvas.width <= LimitOf(canvas.by)
    /\ canvas.height <= LimitOf(canvas.by)
    /\ (natural.width <= LimitOf(canvas.by) /\ natural.height <= LimitOf(canvas.by))
         => (canvas.width = natural.width /\ canvas.height = natural.height)

\* An image wider than the primary tier's limit was given a canvas of exactly
\* the limit's width.
C19_Witness ==
  /\ canvas.by = "compressPNGAdvanced"
  /\ natural.width > 2048
  /\ natural.height > 1024
  /\ canvas.width = 2048
  /\ canvas.height < natural.height

\* C20: for every call of handleFiles that is pending, the progress shown is
\* the number of the call's files that have their outcome or failure, over
\* the number of its files, in percent.
PendingCalls ==
  { b \in {Suspended} \cup { others[k] : k \in 1..Len(others) } :
      b.pc \notin {"idle", "done"} }

\* r = n / d for a fraction r
FracIs(r, n, d) == r # NoRatio /\ r.num * d = n * r.den

C20_ProgressIsCompletedOverTotal ==
  \A b \in PendingCalls : FracIs(progress, (b.i - 1) * 100, Len(b.files))

\* The answers of the three encodes of tryNextQuality, in the order of
\* qualities, and those of the first n that carry a blob.
Attempts == [k \in 1..Len(qualities) |-> Encode(QualityRequest[k])]
Successful(n) == { Attempts[k] : k \in { j \in 1..n : Attempts[j] # Null } }

SmallestOf(S, b) == b \in S /\ \A c \in S : b.size <= c.size

\* C22: compressPNGFallback has one encode in flight at a time, the one at
\* qualities[currentIndex], started after the callbacks of all earlier ones;
\* bestBlob is the smallest blob handed back so far, attempts without a blob
\* being skipped; the promise is settled after the third callback only,
\* resolved with the smallest blob of the successful attempts, and rejected
\* exactly when none of the three attempts handed back a blob.
C22_FallbackTriesInTurnKeepsSmallest ==
  /\ (pc = "compressPNGFallback" /\ "fb" \in inflight) =>
       /\ inflight = {"fb"}
       /\ currentIndex < Len(qualities)
       /\ cands.fallbackBlob = Unsettled
       /\ cands.fallback = { b.size : b \in Successful(currentIndex) }
       /\ IF Successful(currentIndex) = {} THEN bestBlob = Null
          ELSE SmallestOf(Successful(currentIndex), bestBlob)
  /\ cands.fallbackBlob # Unsettled =>
       /\ cands.fallback = { b.size : b \in Successful(Len(qualities)) }
       /\ IF Successful(Len(qualities)) = {} THEN cands.fallbackBlob = Null
          ELSE SmallestOf(Successful(Len(qualities)), cands.fallbackBlob)

C22_Witness ==
  /\ cands.fallbackBlob = Attempts[3]
  /\ Attempts[1] = Null
  /\ Attempts[2] # Null
  /\ Attempts[3] # Null
  /\ Attempts[3].size < Attempts[2].size

\* What compressPNG is left with after both tiers: the fallback tier's blob
\* when that tier resolved with a smaller one, the primary tier's otherwise.
SmallerOfTiers(primary, fallbackBlob, final) ==
  IF fallbackBlob = Null THEN final = primary
  ELSE /\ final \in {primary, fallbackBlob}
       /\ final.size <= primary.size
       /\ final.size <= fallbackBlob.size

\* C23: in compressPNG, a primary tier that gained less than 5% is followed by
\* the fallback tier and the final PNG blob is the smaller of the two tiers'
\* blobs; a fallback tier that was rejected leaves the primary tier's blob,
\* the file is not reported as failed and, once handleFiles is past it, has
\* its outcome with that blob.  A primary tier that gained 5% or more is
\* final and the fallback tier is not entered.
C23_SmallerTierOrPrimaryAlone ==
  page = "Index" =>
    /\ (pc = "convertToWebP" /\ cands.id = files[i].id) =>
         /\ compressedBlob.size = SetMin(cands.primary)
         /\ ~Rejects(files[i].id)
         /\ IF LowGain(files[i].size, compressedBlob.size)
            THEN /\ cands.ranFallback
                 /\ cands.fallbackBlob # Unsettled
                 /\ SmallerOfTiers(compressedBlob, cands.fallbackBlob,
                                   finalCompressedBlob)
            ELSE /\ ~cands.ranFallback
                 /\ cands.fallbackBlob = Unsettled
                 /\ cands.fallback = {}
                 /\ finalCompressedBlob = compressedBlob
    /\ \A o \in EmittedForCands :
         o.compressedSize =
           (IF cands.fallbackBlob \notin {Unsettled, Null}
                 /\ cands.fallbackBlob.size < SetMin(cands.primary)
              THEN cands.fallbackBlob.size ELSE SetMin(cands.primary))
    /\ \A k \in 1..Len(files) :
         (k < i /\ cands.id = files[k].id /\ cands.fallbackBlob = Null) =>
           /\ ~Rejects(files[k].id)
           /\ EmittedForCands # {}

\* The fallback tier ran for a file and was rejected; the file has its
\* outcome, with the primary tier's blob.
C23_Witness ==
  /\ page = "Index"
  /\ cands.ranFallback
  /\ cands.fallbackBlob = Null
  /\ \E o \in EmittedForCands : o.compressedSize = SetMin(cands.primary)

\* C24: every started batch finishes once every image load and encode that
\* was started has invoked its callback.  As a property of single states: a
\* batch that has not reached the finally block of handleFiles (isProcessing
\* is still true) has a load or an encode whose callback is due; with none
\* due, no step of the program is left to finish it.
C24_UnfinishedBatchHasCallDue ==
  isProcessing => inflight # {}

\* The calls of handleFiles that have started their loop and not left it:
\* the one whose callback ran last and those set aside.
Running(b) == b.pc \notin {"idle", "done"}
RunningCalls ==
  Cardinality({ k \in 1..Len(others) : Running(others[k]) })
    + (IF Running(Suspended) THEN 1 ELSE 0)

\* C25: at most one call of handleFiles is between its start and its finally
\* block at any time; a selection or a drop made while isProcessing is true
\* does not start a second one beside it.
C25_AtMostOneBatch ==
  RunningCalls <= 1

\* C26: isProcessing is true whenever some call of handleFiles still has a
\* file in compression, and a step that takes progress back to 0 leaves no
\* call of handleFiles running.
C26_ProcessingFlagCoversBatches ==
  /\ [](RunningCalls > 0 => isProcessing)
  /\ [][(progress # Zero /\ progress' = Zero) => RunningCalls' = 0]_vars

\* Every call of handleFiles has left its loop.
AllEnded ==
  /\ pc = "done"
  /\ \A k \in 1..Len(others) : others[k].pc = "done"

\* The call of handleFiles that was started last: the one holding the files
\* of the latest drop.
StartedLast ==
  LET calls == {Suspended} \cup { others[k] : k \in 1..Len(others) } IN
  CHOOSE b \in calls : \A c \in calls : c.files[1].id <= b.files[1].id

\* C27: once every call of handleFiles has ended, the published list is the
\* list of outcomes of the call that was started last; no outcome of an
\* earlier call is in it.
C27_LatestBatchPublished ==
  AllEnded => compressedImages = StartedLast.results

\* C28: a source image of at least one pixel each way gets a canvas of at
\* least one pixel each way, whichever function sizes it.
C28_CanvasNeverEmpty ==
  (canvas # NoCanvas /\ natural.width >= 1 /\ natural.height >= 1) =>
    (canvas.width >= 1 /\ canvas.height >= 1)

\* C29: an outcome of compressPNG has its WebP blob, its WebP size and its
\* WebP ratio all three, or none of them.
C29_WebpFieldsTogether ==
  page # "StandaloneCompressor" =>
    \A o \in Emitted :
      /\ (o.webpBlob = Null) <=> (o.webpSize = NoSize)
      /\ (o.webpBlob = Null) <=> (o.webpCompressionRatio = NoRatio)

\* The files handleFiles has gone past whose compression was not rejected,
\* in the order of the accepted files.
NotRejected(f) == ~Rejects(f.id)
Succeeded == SelectSeq(SubSeq(files, 1, i - 1), NotRejected)

\* C30: the outcomes of a batch are those of its accepted files whose
\* compression succeeded, one each, in the order of the accepted files; a
\* rejected file and a file that was not accepted have none.  The list is
\* published as it stands when the batch ends (StandaloneCompressor: after
\* every outcome).
C30_OneOutcomePerSucceededFileInOrder ==
  /\ [k \in 1..Len(results) |-> results[k].originalFile]
       = [k \in 1..Len(Succeeded) |-> Succeeded[k].id]
  /\ (pc = "done" \/ page = "StandaloneCompressor") => compressedImages = results

\* A batch of two files has ended, both outcomes published in order.
C30_Witness ==
  /\ pc = "done"
  /\ Len(files) = 2
  /\ Len(compressedImages) = 2
  /\ compressedImages[1].originalFile = files[1].id
  /\ compressedImages[2].originalFile = files[2].id
====
